---------------------------- MODULE Spec2Model ----------------------------
(***************************************************************************)
(* One run of auditInactiveEnterpriseUsers (src/UserAudit.js): the cutoff  *)
(* date, the paginated AdminDirectory.Users.list loop, the per-candidate   *)
(* AdminLicenseManager.LicenseAssignments.get probe, and the export to a   *)
(* new spreadsheet.  The external services are the environment: each call  *)
(* either answers or throws, chosen nondeterministically, and `calls'      *)
(* records every external call in the order the run issues it.             *)
(***************************************************************************)
EXTENDS Integers, Sequences, FiniteSets, TLC

VARIABLES
    policy,         \* CONFIG: INACTIVITY_DAYS, PRODUCT_ID, TARGET_SKU_ID
    now,            \* the clock read by new Date(), in days
    directory,      \* the pages the directory service serves for the query
    pc,             \* position of the run
    inactiveDate,   \* const inactiveDate   (auditInactiveEnterpriseUsers)
    users,          \* let users            (getInactiveUsers)
    pageToken,      \* let pageToken        (getInactiveUsers)
    inactiveUsers,  \* const inactiveUsers  (auditInactiveEnterpriseUsers)
    idx,            \* position of Array.prototype.filter in inactiveUsers
    targetUsers,    \* const targetUsers    (auditInactiveEnterpriseUsers)
    sheets,         \* the spreadsheets SpreadsheetApp holds
    log,            \* Logger.log lines
    calls,          \* external calls issued so far, with their outcomes
    error           \* the exception that left the run uncaught, if any

vars == <<policy, now, directory, pc, inactiveDate, users, pageToken,
          inactiveUsers, idx, targetUsers, sheets, log, calls, error>>

---------------------------------------------------------------------------
(* Bounds of the model *)

MaxCandidates == 3
MaxPages == 2

(* Program constants *)

NoToken == 0
DefaultInactivityDays == 365
DataStartRow == 2
TargetSkuId == "1010020020"
ProductId == "Google-Apps"
SheetTitle == "Inactive Enterprise Plus Users Audit"

---------------------------------------------------------------------------
(* Inputs *)

Clock == {20763}

DefaultPolicy ==
    [inactivityDays |-> DefaultInactivityDays, productId |-> ProductId,
     skuId |-> TargetSkuId]

Policies ==
    {DefaultPolicy,
     [DefaultPolicy EXCEPT !.inactivityDays = 0],
     [DefaultPolicy EXCEPT !.productId = ""],
     [DefaultPolicy EXCEPT !.skuId = ""]}

Emails == {"a@x.com", "b@x.com"}

UserOf(email) ==
    IF email = "a@x.com"
    THEN [primaryEmail |-> email, name |-> [fullName |-> "A"],
          lastLoginTime |-> "2022-01-01", creationTime |-> "2020-01-01",
          suspended |-> FALSE]
    ELSE [primaryEmail |-> email, name |-> [fullName |-> "B"],
          lastLoginTime |-> "never", creationTime |-> "2019-06-30",
          suspended |-> TRUE]

DirectoryUsers == {UserOf(e) : e \in Emails}

SeqsUpTo(S, n) == UNION {[1..k -> S] : k \in 0..n}

RECURSIVE Flatten(_)
Flatten(pages) ==
    IF pages = <<>> THEN <<>> ELSE Head(pages) \o Flatten(Tail(pages))

Directories ==
    {d \in UNION {[1..k -> SeqsUpTo(DirectoryUsers, MaxCandidates)] : k \in 1..MaxPages} :
        Len(Flatten(d)) <= MaxCandidates}

ProbeOutcomes == {"found", "not_found", "error"}

---------------------------------------------------------------------------
(* Pure parts of the program *)

GetCutoffDate(today, daysAgo) == today - daysAgo

\* AdminDirectory.Users.list as the service answers it: the page the token
\* names (the first page without a token) and the token of the page after it.
PageIndex(token) == IF token = NoToken THEN 1 ELSE token

ServiceList(dir, token) ==
    LET i == PageIndex(token) IN
    [users |-> dir[i],
     nextPageToken |-> IF i < Len(dir) THEN i + 1 ELSE NoToken]

RequestTokenFirst(token) == NoToken
RequestToken(token) == token

ConcatPrepend(acc, items) == items \o acc
Concat(acc, items) == IF items # <<>> THEN acc \o items ELSE acc

ContinuePaging(token) == token # NoToken

PcAfterListErrorRetry == "list"
PcAfterListError == "fetched"

HasLicenseResult(outcome) == outcome = "found"

FilterKeepPrepend(acc, user, keep) == IF keep THEN <<user>> \o acc ELSE acc
FilterKeep(acc, user, keep) == IF keep THEN Append(acc, user) ELSE acc

ShouldExportAlways(matched) == Len(matched) >= 0
ShouldExport(matched) == Len(matched) > 0

HeaderRow == <<"Name", "Email", "Last Login Time", "Creation Time", "Suspended">>

RowOfSwapped(user) ==
    <<user.primaryEmail, user.name.fullName, user.lastLoginTime,
      user.creationTime, user.suspended>>
RowOf(user) ==
    <<user.name.fullName, user.primaryEmail, user.lastLoginTime,
      user.creationTime, user.suspended>>

MapRows(us) == [i \in 1..Len(us) |-> RowOf(us[i])]

EmptyRow == <<>>

\* Sheet.appendRow: the row goes after the last row that has content.
AppendRow(rows, row) == Append(rows, row)

\* Range.setValues on getRange(startRow, 1, Len(values), width).
SetValues(rows, startRow, values) ==
    LET last == IF startRow + Len(values) - 1 > Len(rows)
                THEN startRow + Len(values) - 1 ELSE Len(rows)
    IN [i \in 1..last |->
           IF i >= startRow /\ i < startRow + Len(values)
           THEN values[i - startRow + 1]
           ELSE IF i <= Len(rows) THEN rows[i] ELSE EmptyRow]

UrlOf(id) == <<"spreadsheet", id>>

Logged(msg, arg) == [msg |-> msg, arg |-> arg]

---------------------------------------------------------------------------
Init ==
    /\ policy \in Policies
    /\ now \in Clock
    /\ directory \in Directories
    /\ pc = "start"
    /\ inactiveDate = 0
    /\ users = <<>>
    /\ pageToken = NoToken
    /\ inactiveUsers = <<>>
    /\ idx = 1
    /\ targetUsers = <<>>
    /\ sheets = <<>>
    /\ log = <<>>
    /\ calls = <<>>
    /\ error = "none"

\* lines 94-95, and the entry of getInactiveUsers (118-119)
GetCutoff ==
    /\ pc = "start"
    /\ inactiveDate' = GetCutoffDate(now, policy.inactivityDays)
    /\ log' = Append(log, Logged("Auditing users inactive since", inactiveDate'))
    /\ users' = <<>>
    /\ pageToken' = NoToken
    /\ pc' = "list"
    /\ UNCHANGED <<policy, now, directory, inactiveUsers, idx, targetUsers,
                   sheets, calls, error>>

\* one iteration of the do-while whose request is answered (129-141, 146)
ListUsersOk ==
    /\ pc = "list"
    /\ LET response == ServiceList(directory, RequestToken(pageToken)) IN
        /\ calls' = Append(calls, [op |-> "Users.list",
                                   query |-> inactiveDate,
                                   token |-> RequestToken(pageToken),
                                   result |-> "ok",
                                   next |-> response.nextPageToken])
        /\ users' = Concat(users, response.users)
        /\ pageToken' = response.nextPageToken
        /\ pc' = IF ContinuePaging(response.nextPageToken) THEN "list" ELSE "fetched"
    /\ UNCHANGED <<policy, now, directory, inactiveDate, inactiveUsers, idx,
                   targetUsers, sheets, log, error>>

\* one iteration of the do-while whose request throws (142-145)
ListUsersFail ==
    /\ pc = "list"
    /\ calls' = Append(calls, [op |-> "Users.list",
                               query |-> inactiveDate,
                               token |-> RequestToken(pageToken),
                               result |-> "error",
                               next |-> NoToken])
    /\ log' = Append(log, Logged("Error listing users", Len(calls')))
    /\ pc' = PcAfterListError
    /\ UNCHANGED <<policy, now, directory, inactiveDate, users, pageToken,
                   inactiveUsers, idx, targetUsers, sheets, error>>

\* return users (148), lines 98-99, and the start of filter (102)
FetchReturn ==
    /\ pc = "fetched"
    /\ inactiveUsers' = users
    /\ log' = Append(log, Logged("Found inactive users", Len(users)))
    /\ idx' = 1
    /\ targetUsers' = <<>>
    /\ pc' = "probe"
    /\ UNCHANGED <<policy, now, directory, inactiveDate, users, pageToken,
                   sheets, calls, error>>

ProbeStep(outcome, caught) ==
    /\ pc = "probe"
    /\ idx <= Len(inactiveUsers)
    /\ calls' = Append(calls, [op |-> "LicenseAssignments.get",
                               productId |-> policy.productId,
                               skuId |-> policy.skuId,
                               userId |-> inactiveUsers[idx].primaryEmail,
                               result |-> outcome])
    /\ IF caught
       THEN /\ targetUsers' = FilterKeep(targetUsers, inactiveUsers[idx],
                                         HasLicenseResult(outcome))
            /\ idx' = idx + 1
            /\ UNCHANGED <<pc, error>>
       ELSE /\ pc' = "aborted"
            /\ error' = "ProbeError"
            /\ UNCHANGED <<targetUsers, idx>>
    /\ UNCHANGED <<policy, now, directory, inactiveDate, users, pageToken,
                   inactiveUsers, sheets, log>>

HasLicenseRethrow(outcome) == ProbeStep(outcome, outcome # "error")
\* hasLicense on the next candidate of the filter (102, 154-162)
HasLicense(outcome) == ProbeStep(outcome, TRUE)

Probe == \E outcome \in ProbeOutcomes : HasLicense(outcome)

\* the end of filter and the reporting decision (103-110)
ReportDecision ==
    /\ pc = "probe"
    /\ idx > Len(inactiveUsers)
    /\ IF ShouldExport(targetUsers)
       THEN /\ log' = Append(log, Logged("Found users with Target License and Inactive",
                                         Len(targetUsers)))
            /\ pc' = "create"
       ELSE /\ log' = Append(Append(log,
                        Logged("Found users with Target License and Inactive",
                               Len(targetUsers))),
                        Logged("No matching users found.", 0))
            /\ pc' = "done"
    /\ UNCHANGED <<policy, now, directory, inactiveDate, users, pageToken,
                   inactiveUsers, idx, targetUsers, sheets, calls, error>>

ExportCall(op, ok) ==
    /\ calls' = Append(calls, [op |-> op, result |-> IF ok THEN "ok" ELSE "error"])
    /\ IF ok THEN error' = error ELSE error' = "ExportError"

\* SpreadsheetApp.create and getActiveSheet (202-203)
CreateSpreadsheet ==
    /\ pc = "create"
    /\ \E ok \in BOOLEAN :
        /\ ExportCall("SpreadsheetApp.create", ok)
        /\ sheets' = IF ok
                     THEN Append(sheets, [title |-> SheetTitle, rows |-> <<>>,
                                          url |-> UrlOf(Len(sheets) + 1)])
                     ELSE sheets
        /\ pc' = IF ok THEN "header" ELSE "aborted"
    /\ UNCHANGED <<policy, now, directory, inactiveDate, users, pageToken,
                   inactiveUsers, idx, targetUsers, log>>

\* sheet.appendRow of the header (206)
AppendHeader ==
    /\ pc = "header"
    /\ \E ok \in BOOLEAN :
        /\ ExportCall("Sheet.appendRow", ok)
        /\ sheets' = IF ok
                     THEN [sheets EXCEPT ![Len(sheets)].rows = AppendRow(@, HeaderRow)]
                     ELSE sheets
        /\ pc' = IF ok THEN "values" ELSE "aborted"
    /\ UNCHANGED <<policy, now, directory, inactiveDate, users, pageToken,
                   inactiveUsers, idx, targetUsers, log>>

\* users.map and the bulk setValues (209-220)
WriteRows ==
    /\ pc = "values"
    /\ LET rows == MapRows(targetUsers) IN
       IF Len(rows) > 0
       THEN \E ok \in BOOLEAN :
            /\ ExportCall("Range.setValues", ok)
            /\ sheets' = IF ok
                         THEN [sheets EXCEPT ![Len(sheets)].rows =
                                  SetValues(@, DataStartRow, rows)]
                         ELSE sheets
            /\ pc' = IF ok THEN "url" ELSE "aborted"
       ELSE /\ pc' = "url"
            /\ UNCHANGED <<sheets, calls, error>>
    /\ UNCHANGED <<policy, now, directory, inactiveDate, users, pageToken,
                   inactiveUsers, idx, targetUsers, log>>

\* Logger.log of ss.getUrl() (222) and the return to the caller
LogReport ==
    /\ pc = "url"
    /\ log' = Append(log, Logged("Report generated", sheets[Len(sheets)].url))
    /\ pc' = "done"
    /\ UNCHANGED <<policy, now, directory, inactiveDate, users, pageToken,
                   inactiveUsers, idx, targetUsers, sheets, calls, error>>

Next ==
    \/ GetCutoff
    \/ ListUsersOk
    \/ ListUsersFail
    \/ FetchReturn
    \/ Probe
    \/ ReportDecision
    \/ CreateSpreadsheet
    \/ AppendHeader
    \/ WriteRows
    \/ LogReport

Spec == Init /\ [][Next]_vars

\* The script is one thread that the runtime runs to its end.
FairSpec == Spec /\ WF_vars(Next)

---------------------------------------------------------------------------
(* Vocabulary of the properties *)

IsListCall(c) == c.op = "Users.list"
IsProbeCall(c) == c.op = "LicenseAssignments.get"
IsCreateCall(c) == c.op = "SpreadsheetApp.create"
IsExportCall(c) == c.op \in {"SpreadsheetApp.create", "Sheet.appendRow", "Range.setValues"}

ListCalls == SelectSeq(calls, IsListCall)
ProbeCalls == SelectSeq(calls, IsProbeCall)
CreateCalls == SelectSeq(calls, IsCreateCall)
ExportCalls == SelectSeq(calls, IsExportCall)

ListFailed == \E i \in DOMAIN calls : IsListCall(calls[i]) /\ calls[i].result = "error"
ProbeErrored == \E i \in DOMAIN calls : IsProbeCall(calls[i]) /\ calls[i].result = "error"
ExportFailed == \E i \in DOMAIN calls : IsExportCall(calls[i]) /\ calls[i].result = "error"

CountLogged(msg) == Cardinality({i \in DOMAIN log : log[i].msg = msg})
CountProbes(result) ==
    Cardinality({i \in DOMAIN calls : IsProbeCall(calls[i]) /\ calls[i].result = result})

FetchEnded == pc \notin {"start", "list"}
FilterStarted == pc \notin {"start", "list", "fetched"}
Decided == pc \notin {"start", "list", "fetched", "probe"}
Ended == pc \in {"done", "aborted"}

PolicyIsValid(p) == p.inactivityDays > 0 /\ p.productId # "" /\ p.skuId # ""

RECURSIVE IsSubsequence(_, _)
IsSubsequence(s, t) ==
    IF s = <<>> THEN TRUE
    ELSE IF t = <<>> THEN FALSE
    ELSE IF Head(s) = Head(t) THEN IsSubsequence(Tail(s), Tail(t))
    ELSE IsSubsequence(s, Tail(t))

---------------------------------------------------------------------------
\* C1: at every point of a run the matched users (targetUsers) are a
\* subsequence of the candidates getInactiveUsers returned: only fetched
\* candidates, none more often than fetched, in the candidates' order.
C1_MatchedIsSubsequence ==
    /\ IsSubsequence(targetUsers, inactiveUsers)
    /\ FilterStarted => IsSubsequence(targetUsers, SubSeq(inactiveUsers, 1, idx - 1))

C1_Witness ==
    /\ Decided
    /\ Len(inactiveUsers) = 3
    /\ Len(targetUsers) = 2
    /\ targetUsers[1] # targetUsers[2]
    /\ targetUsers[1] = inactiveUsers[1]
    /\ targetUsers[2] = inactiveUsers[3]

\* C2: while no page request has failed, the accumulated users are the
\* concatenation of the pages served so far, one request per page; the loop
\* goes on exactly while the last response carried a token, and once it has
\* ended the result is the concatenation of every page of the directory.
C2_FetchIsConcatenation ==
    ~ListFailed =>
        /\ Len(ListCalls) <= Len(directory)
        /\ users = Flatten(SubSeq(directory, 1, Len(ListCalls)))
        /\ (pc = "list" /\ calls # <<>>) => calls[Len(calls)].next # NoToken
        /\ FetchEnded =>
            /\ Len(ListCalls) = Len(directory)
            /\ ListCalls[Len(ListCalls)].next = NoToken
            /\ users = Flatten(directory)
        /\ FilterStarted => inactiveUsers = Flatten(directory)

C2_Witness ==
    /\ ~ListFailed
    /\ FilterStarted
    /\ Len(directory) = 2
    /\ directory[1] = <<>>
    /\ Len(directory[2]) = 2
    /\ directory[2][1] # directory[2][2]
    /\ inactiveUsers = directory[2]

\* C3: when the request for page k fails, it is the last page request of the
\* run, the accumulated users are exactly those of pages 1..k-1, in order,
\* the cause is logged once, and the run goes on without an exception.
C3_PartialOnFailure ==
    \A k \in DOMAIN ListCalls :
        ListCalls[k].result = "error" =>
            /\ k = Len(ListCalls)
            /\ pc # "list"
            /\ users = Flatten(SubSeq(directory, 1, k - 1))
            /\ FilterStarted => inactiveUsers = Flatten(SubSeq(directory, 1, k - 1))
            /\ CountLogged("Error listing users") = 1
            /\ error # "PaginationError"
            /\ pc = "aborted" => ExportFailed

C3_Witness ==
    /\ Len(ListCalls) = 2
    /\ ListCalls[2].result = "error"
    /\ FilterStarted
    /\ inactiveUsers = directory[1]
    /\ Len(inactiveUsers) >= 2

\* C4 (as claimed): when the run has ended, the number of inconclusive
\* probes it surfaced is the number of probes that failed with something
\* other than not-found, apart from the confirmed-absent ones.
C4_InconclusiveSurfaced ==
    Ended => CountLogged("License check inconclusive") = CountProbes("error")

\* C5 (as claimed): a run whose policy is invalid issues no external call
\* and creates no artifact.
C5_InvalidPolicyRejected ==
    ~PolicyIsValid(policy) => (calls = <<>> /\ sheets = <<>> /\ pc \in {"start", "aborted"})

\* C6: once the reporting decision is taken with an empty matched sequence,
\* the run has ended normally, reported "no matches", created no artifact
\* and issued no export call.
C6_NoArtifactWhenEmpty ==
    (Decided /\ targetUsers = <<>>) =>
        /\ pc = "done"
        /\ error = "none"
        /\ sheets = <<>>
        /\ ExportCalls = <<>>
        /\ log[Len(log)].msg = "No matching users found."
        /\ CountLogged("Report generated") = 0

C6_Witness ==
    /\ pc = "done"
    /\ targetUsers = <<>>
    /\ Len(inactiveUsers) >= 2
    /\ CountProbes("not_found") >= 1

SpecHeader == <<"Name", "Email", "LastLoginTime", "CreationTime", "Suspended">>
SheetHeader == <<"Name", "Email", "Last Login Time", "Creation Time", "Suspended">>

VerbatimRows(matched) ==
    [i \in 1..Len(matched) |->
        <<matched[i].name.fullName, matched[i].primaryEmail, matched[i].lastLoginTime,
          matched[i].creationTime, matched[i].suspended>>]

ExportedWithHeader(header) ==
    /\ Len(sheets) = 1
    /\ Len(CreateCalls) = 1
    /\ sheets[1].title = SheetTitle
    /\ sheets[1].rows = <<header>> \o VerbatimRows(targetUsers)
    /\ log[Len(log)].msg = "Report generated"
    /\ log[Len(log)].arg = sheets[1].url

\* C7 (as claimed): a run that exported a non-empty matched sequence created
\* exactly one artifact: the header [Name, Email, LastLoginTime,
\* CreationTime, Suspended], then one verbatim row per matched user in
\* matched order, and reported its locator.
C7_ExportWithSpecHeader ==
    (pc = "done" /\ targetUsers # <<>>) => ExportedWithHeader(SpecHeader)

\* C7 (amended): the same, with the header the sheet really gets:
\* [Name, Email, Last Login Time, Creation Time, Suspended]; and never more
\* than one artifact.
C7_Export ==
    /\ Len(sheets) <= 1
    /\ (pc = "done" /\ targetUsers # <<>>) => ExportedWithHeader(SheetHeader)

C7_Witness ==
    /\ pc = "done"
    /\ Len(targetUsers) = 2
    /\ targetUsers[1] # targetUsers[2]
    /\ Len(sheets) = 1
    /\ Len(sheets[1].rows) = 3

\* C8 (as claimed): a failed artifact creation or write does not end the run
\* with an uncaught exception; the run ends normally with an export-failure
\* notice.
C8_ExportFailureContained ==
    ExportFailed =>
        /\ pc # "aborted"
        /\ error = "none"
        /\ Ended => CountLogged("Export failed") = 1

\* C9: a run with a valid policy, whatever page requests and license probes
\* fail, takes the reporting decision and ends; no exception leaves it
\* before the export step.
C9_ReachesReport ==
    PolicyIsValid(policy) =>
        /\ <>(Decided /\ Ended /\ (targetUsers = <<>> \/ Len(CreateCalls) = 1))
        /\ [](pc = "aborted" => (Decided /\ ExportFailed /\ error = "ExportError"))

C9_Witness ==
    /\ PolicyIsValid(policy)
    /\ pc = "done"
    /\ ListFailed
    /\ ProbeErrored
    /\ CountProbes("found") >= 1
    /\ Len(sheets) = 1

\* C10: the external calls of a run come in linear phases: page requests
\* first, each after the first carrying the token of the response just
\* before it; then one probe per fetched candidate, in candidate order, none
\* before the pagination ended; then at most one artifact creation, after
\* the last probe.
C10_LinearPhases ==
    /\ \A i \in DOMAIN calls :
        IsListCall(calls[i]) =>
            IF i = 1 THEN calls[i].token = NoToken
            ELSE /\ IsListCall(calls[i - 1])
                 /\ calls[i - 1].result = "ok"
                 /\ calls[i - 1].next # NoToken
                 /\ calls[i].token = calls[i - 1].next
    /\ calls # <<>> => IsListCall(calls[1])
    /\ \A i \in DOMAIN calls :
        IsProbeCall(calls[i]) =>
            /\ \A j \in DOMAIN calls : IsListCall(calls[j]) => j < i
            /\ \A j \in DOMAIN calls : IsExportCall(calls[j]) => i < j
            /\ LET last == calls[Len(ListCalls)] IN
                  last.result = "error" \/ last.next = NoToken
    /\ Len(ProbeCalls) <= Len(users)
    /\ \A j \in DOMAIN ProbeCalls :
        /\ ProbeCalls[j].userId = users[j].primaryEmail
        /\ ProbeCalls[j].productId = policy.productId
        /\ ProbeCalls[j].skuId = policy.skuId
    /\ Decided => Len(ProbeCalls) = Len(users)
    /\ Len(CreateCalls) <= 1
    /\ \A i \in DOMAIN calls :
        IsCreateCall(calls[i]) => (Decided /\ i = Len(ListCalls) + Len(users) + 1)

C10_Witness ==
    /\ pc = "done"
    /\ Len(ListCalls) = 2
    /\ Len(ProbeCalls) = 3
    /\ Len(CreateCalls) = 1
    /\ ListCalls[2].token # NoToken

===========================================================================
